---- MODULE Spec2Model ----
(***************************************************************************)
(* Model of the Algo Trading API order registry (Backend/API/main.py) and  *)
(* of the odds calculator                                                  *)
(* (Backend/TradingAndQuatifying/CommonStatCalculations.py).               *)
(*                                                                         *)
(* Spec      : the registry with every handler run to completion           *)
(*             (place_order, get_open_orders, get_order).                  *)
(* SpecConc  : two worker threads running place_order step by step         *)
(*             (FastAPI runs "def" handlers in a thread pool).             *)
(* SpecFilter: get_open_orders / get_order applied to registries whose     *)
(*             orders carry any of the five statuses.                      *)
(* SpecCalc  : one StatCalculations object and its methods.                *)
(***************************************************************************)
EXTENDS Integers, Sequences, FiniteSets, TLC

VARIABLES
    orders,      \* STATE["orders"]: dict in insertion order, <<[key, val]>>
    uuidCount,   \* number of uuid.uuid4() values drawn so far
    clock,       \* number of Order objects built so far (datetime.utcnow)
    call,        \* the last request handled: [op, arg]
    resp,        \* its response: [code, body]
    pc,          \* SpecConc: position of each worker thread in place_order
    treq,        \* SpecConc: the request each thread is handling
    titer,       \* SpecConc: each thread's dict iterator [pos, size]
    tres,        \* SpecConc: each thread's response
    obj,         \* SpecCalc: the attributes of the StatCalculations object
    calcCall,    \* SpecCalc: the last method called: [op, args]
    calcRes      \* SpecCalc: its outcome: [kind, val]

registryVars == <<orders, uuidCount, clock, call, resp>>
threadVars == <<pc, treq, titer, tres>>
calcVars == <<obj, calcCall, calcRes>>
vars == <<orders, uuidCount, clock, call, resp, pc, treq, titer, tres,
          obj, calcCall, calcRes>>

(***************************************************************************)
(* Bounds                                                                  *)
(***************************************************************************)
\* Order objects built in one behaviour
MaxOrders == 2
\* largest denominator of the probabilities fed to the calculator
MaxDenom == 3

\* Optional[T]: None is the empty tuple, a present value x is <<x>>
None == <<>>
Some(x) == <<x>>

(***************************************************************************)
(* Data model: main.py, "Models"                                           *)
(***************************************************************************)
Side == {"BUY", "SELL"}
OrderType == {"MARKET", "LIMIT"}
TimeInForce == {"DAY", "GTC"}
Statuses == {"NEW", "PARTIALLY_FILLED", "FILLED", "CANCELED", "REJECTED"}

\* str.upper() on ASCII text; a symbol is its string of ASCII codes
Upper(s) == [i \in DOMAIN s |-> IF s[i] \in 97..122 THEN s[i] - 32 ELSE s[i]]

\* the identifiers uuid.uuid4() hands out, in the order it hands them out
UuidName == <<"uuid-1", "uuid-2", "uuid-3", "uuid-4", "uuid-5">>
\* the n-th call of uuid.uuid4(): a value never returned before
uuid4(n) == UuidName[n + 1]
IssuedUuids == {UuidName[i] : i \in 1..uuidCount}

\* idempotency keys a client sends: none, the empty string, its own keys,
\* or an identifier it got back from an earlier response
ClientKeys == {"k1", "k2"}
ClientOrderIds == {None} \cup {Some(k) : k \in {""} \cup ClientKeys \cup IssuedUuids}

\* the fields of a request that travel together in the bounded inputs
Profiles ==
    { [symbol |-> <<97, 97, 112, 108>>, side |-> "BUY", qty |-> 10, tif |-> "DAY"],
      [symbol |-> <<84, 83, 76, 65>>, side |-> "SELL", qty |-> 25, tif |-> "GTC"] }
LimitPrices == {None, Some(0), Some(150)}

\* every JSON body a client may post
Posted ==
    { [symbol |-> p.symbol, side |-> p.side, qty |-> p.qty,
       order_type |-> t, limit_price |-> l, tif |-> p.tif,
       client_order_id |-> c] :
         p \in Profiles, t \in OrderType, l \in LimitPrices,
         c \in {None} \cup {Some(k) : k \in {""} \cup ClientKeys \cup
                                          {UuidName[i] : i \in 1..Len(UuidName)}} }

\* class OrderRequest: pydantic's field constraints (gt=0)
OrderRequest(b) ==
    /\ b.side \in Side
    /\ b.qty > 0
    /\ b.order_type \in OrderType
    /\ b.limit_price # None => b.limit_price[1] > 0
    /\ b.tif \in TimeInForce

\* the bodies that reach place_order: FastAPI answers the others itself
Bodies == {b \in Posted : OrderRequest(b)}

\* the truthiness test of lines 114 and 117 written as "is not None"
TruthyNotNone(s) == s # None

\* Python truthiness of an Optional[str]
Truthy(s) == s # None /\ s[1] # ""

(***************************************************************************)
(* dict operations on STATE["orders"]                                      *)
(***************************************************************************)
Values(d) == [i \in DOMAIN d |-> d[i].val]

\* d.get(k)
DictGet(d, k) ==
    IF \E i \in DOMAIN d : d[i].key = k
    THEN Some(d[CHOOSE i \in DOMAIN d : d[i].key = k].val)
    ELSE None

\* d[k] = v: replaces the value of an existing key, else appends
DictSet(d, k, v) ==
    IF \E i \in DOMAIN d : d[i].key = k
    THEN [i \in DOMAIN d |-> IF d[i].key = k THEN [key |-> k, val |-> v] ELSE d[i]]
    ELSE Append(d, [key |-> k, val |-> v])

(***************************************************************************)
(* place_order, get_open_orders, get_order                                 *)
(***************************************************************************)
\* the check of line 110 written against the wrong member of OrderType
MissingLimitPriceMarket(req) == req.order_type = "MARKET" /\ req.limit_price = None

\* line 110: the LIMIT-without-price check
MissingLimitPrice(req) == req.order_type = "LIMIT" /\ req.limit_price = None

\* lines 113-115: the first stored order the scan returns, or None
RECURSIVE ScanFrom(_, _, _)
ScanFrom(vals, req, i) ==
    IF i > Len(vals) THEN None
    ELSE IF Truthy(req.client_order_id) /\ vals[i].id = req.client_order_id[1]
         THEN Some(vals[i])
         ELSE ScanFrom(vals, req, i + 1)
\* the scan of lines 113-115 missing the first stored order
FindExistingFromSecond(d, req) == ScanFrom(Values(d), req, 2)

FindExisting(d, req) == ScanFrom(Values(d), req, 1)

\* line 117 with an identifier generator that repeats its first value
OrderIdRepeated(req, n) == IF Truthy(req.client_order_id) THEN req.client_order_id[1] ELSE uuid4(0)

\* line 117
OrderId(req, n) == IF Truthy(req.client_order_id) THEN req.client_order_id[1] ELSE uuid4(n)

\* Order(...) of lines 118-127 with qty also passed as filled_qty
NewOrderFilledQty(req, id, now) ==
    [id |-> id,
     symbol |-> Upper(req.symbol),
     side |-> req.side,
     qty |-> req.qty,
     order_type |-> req.order_type,
     limit_price |-> req.limit_price,
     tif |-> req.tif,
     status |-> "NEW",
     created_at |-> now,
     avg_fill_price |-> None,
     filled_qty |-> req.qty]

\* Order(...) of lines 118-127 without the .upper() of line 120
NewOrderRawSymbol(req, id, now) ==
    [id |-> id,
     symbol |-> req.symbol,
     side |-> req.side,
     qty |-> req.qty,
     order_type |-> req.order_type,
     limit_price |-> req.limit_price,
     tif |-> req.tif,
     status |-> "NEW",
     created_at |-> now,
     avg_fill_price |-> None,
     filled_qty |-> 0]

\* lines 118-127: Order(...)
NewOrder(req, id, now) ==
    [id |-> id,
     symbol |-> Upper(req.symbol),
     side |-> req.side,
     qty |-> req.qty,
     order_type |-> req.order_type,
     limit_price |-> req.limit_price,
     tif |-> req.tif,
     status |-> "NEW",
     created_at |-> now,
     avg_fill_price |-> None,
     filled_qty |-> 0]

HTTPException(code) == [code |-> code, body |-> None]

\* POST /api/v1/orders
PlaceOrder(req) ==
    /\ call' = [op |-> "place_order", arg |-> req]
    /\ IF MissingLimitPrice(req)
       THEN /\ resp' = HTTPException(400)
            /\ UNCHANGED <<orders, uuidCount, clock>>
       ELSE IF FindExisting(orders, req) # None
       THEN /\ resp' = [code |-> 201, body |-> FindExisting(orders, req)]
            /\ UNCHANGED <<orders, uuidCount, clock>>
       ELSE /\ clock < MaxOrders
            /\ LET order == NewOrder(req, OrderId(req, uuidCount), clock + 1)
               IN /\ orders' = DictSet(orders, order.id, order)
                  /\ resp' = [code |-> 201, body |-> Some(order)]
            /\ uuidCount' = IF Truthy(req.client_order_id) THEN uuidCount ELSE uuidCount + 1
            /\ clock' = clock + 1
    /\ UNCHANGED <<threadVars, calcVars>>

\* the filter of line 105 without PARTIALLY_FILLED
OpenOrdersNewOnly(d) ==
    SelectSeq(Values(d), LAMBDA o : o.status \in {"NEW"})

\* line 105: the list comprehension
OpenOrders(d) ==
    SelectSeq(Values(d), LAMBDA o : o.status \in {"NEW", "PARTIALLY_FILLED"})

\* GET /api/v1/orders/open
GetOpenOrders ==
    /\ call' = [op |-> "get_open_orders", arg |-> None]
    /\ resp' = [code |-> 200, body |-> OpenOrders(orders)]
    /\ UNCHANGED <<orders, uuidCount, clock, threadVars, calcVars>>

\* get_order with dict.pop for the dict.get of line 135
GetOrderPop(order_id) ==
    /\ call' = [op |-> "get_order", arg |-> order_id]
    /\ resp' = IF DictGet(orders, order_id) = None
               THEN HTTPException(404)
               ELSE [code |-> 200, body |-> DictGet(orders, order_id)]
    /\ orders' = SelectSeq(orders, LAMBDA e : e.key # order_id)
    /\ UNCHANGED <<uuidCount, clock, threadVars, calcVars>>

\* get_order without the 404 of lines 136-137
GetOrderNoCheck(order_id) ==
    /\ call' = [op |-> "get_order", arg |-> order_id]
    /\ resp' = [code |-> 200, body |-> DictGet(orders, order_id)]
    /\ UNCHANGED <<orders, uuidCount, clock, threadVars, calcVars>>

\* GET /api/v1/orders/{order_id}
GetOrder(order_id) ==
    /\ call' = [op |-> "get_order", arg |-> order_id]
    /\ resp' = IF DictGet(orders, order_id) = None
               THEN HTTPException(404)
               ELSE [code |-> 200, body |-> DictGet(orders, order_id)]
    /\ UNCHANGED <<orders, uuidCount, clock, threadVars, calcVars>>

\* path parameters a client asks for: any key it may know, or an unknown one
OrderIds == ClientKeys \cup IssuedUuids \cup {"zz"}

Threads == {"t1", "t2"}

Init ==
    /\ orders = <<>>
    /\ uuidCount = 0
    /\ clock = 0
    /\ call = [op |-> "none", arg |-> None]
    /\ resp = [code |-> 0, body |-> None]
    /\ pc = [t \in Threads |-> "idle"]
    /\ treq = [t \in Threads |-> None]
    /\ titer = [t \in Threads |-> None]
    /\ tres = [t \in Threads |-> None]
    /\ obj = None
    /\ calcCall = None
    /\ calcRes = None

DoPlaceOrder == \E req \in Bodies : req.client_order_id \in ClientOrderIds /\ PlaceOrder(req)
DoGetOrder == \E id \in OrderIds : GetOrder(id)

Next ==
    \/ DoPlaceOrder
    \/ GetOpenOrders
    \/ DoGetOrder

Spec == Init /\ [][Next]_vars

(***************************************************************************)
(* SpecConc: place_order on two worker threads.  A thread can be switched  *)
(* out between any two accesses to STATE["orders"]: creating the iterator  *)
(* of .values(), each step of that iterator, and the store of line 128.    *)
(* What a thread computes between two accesses is local and is folded into *)
(* the access that follows it.                                             *)
(***************************************************************************)
\* the requests the two threads handle: keyless or under the key "k1"
ConcBodies ==
    {b \in Bodies : b.limit_price = None /\ b.client_order_id \in {None, Some("k1")}}

InFlight == Cardinality({t \in Threads : pc[t] # "idle"})

\* lines 108-113: the request arrives, the LIMIT check runs, the scan's
\* iterator is created
Begin(t, req) ==
    /\ pc[t] = "idle"
    /\ clock + InFlight < MaxOrders
    /\ treq' = [treq EXCEPT ![t] = Some(req)]
    /\ IF MissingLimitPrice(req)
       THEN /\ tres' = [tres EXCEPT ![t] = Some(HTTPException(400))]
            /\ UNCHANGED <<pc, titer>>
       ELSE /\ tres' = [tres EXCEPT ![t] = None]
            /\ pc' = [pc EXCEPT ![t] = "scan"]
            /\ titer' = [titer EXCEPT ![t] = Some([pos |-> 0, size |-> Len(orders)])]
    /\ UNCHANGED <<registryVars, calcVars>>

\* lines 113-115: one step of "for o in STATE["orders"].values()"; the dict
\* iterator raises RuntimeError when the dict's size is not the one it saw
\* at its creation (answered 500)
ScanStep(t) ==
    /\ pc[t] = "scan"
    /\ LET it == titer[t][1]
           req == treq[t][1]
       IN IF Len(orders) # it.size
          THEN /\ tres' = [tres EXCEPT ![t] = Some(HTTPException(500))]
               /\ pc' = [pc EXCEPT ![t] = "idle"]
               /\ titer' = [titer EXCEPT ![t] = None]
          ELSE IF it.pos >= Len(orders)
          THEN /\ pc' = [pc EXCEPT ![t] = "store"]
               /\ titer' = [titer EXCEPT ![t] = None]
               /\ UNCHANGED tres
          ELSE IF Truthy(req.client_order_id)
                  /\ orders[it.pos + 1].val.id = req.client_order_id[1]
          THEN /\ tres' = [tres EXCEPT ![t] =
                              Some([code |-> 201, body |-> Some(orders[it.pos + 1].val)])]
               /\ pc' = [pc EXCEPT ![t] = "idle"]
               /\ titer' = [titer EXCEPT ![t] = None]
          ELSE /\ titer' = [titer EXCEPT ![t] = Some([it EXCEPT !.pos = it.pos + 1])]
               /\ UNCHANGED <<pc, tres>>
    /\ UNCHANGED <<registryVars, treq, calcVars>>

\* lines 117-131: the order is built, stored and returned
Store(t) ==
    /\ pc[t] = "store"
    /\ LET req == treq[t][1]
           order == NewOrder(req, OrderId(req, uuidCount), clock + 1)
       IN /\ orders' = DictSet(orders, order.id, order)
          /\ tres' = [tres EXCEPT ![t] = Some([code |-> 201, body |-> Some(order)])]
          /\ uuidCount' = IF Truthy(req.client_order_id) THEN uuidCount ELSE uuidCount + 1
    /\ clock' = clock + 1
    /\ pc' = [pc EXCEPT ![t] = "idle"]
    /\ UNCHANGED <<call, resp, treq, titer, calcVars>>

NextConc ==
    \/ \E t \in Threads : \E req \in ConcBodies : Begin(t, req)
    \/ \E t \in Threads : ScanStep(t)
    \/ \E t \in Threads : Store(t)

SpecConc == Init /\ [][NextConc]_vars

(***************************************************************************)
(* SpecFilter: the two queries over registries holding orders in any       *)
(* status, as a fill processor writing Order.status would leave them.      *)
(***************************************************************************)
\* orders stored in one registry of SpecFilter
MaxStored == 3

StoredWithStatus(i, st) ==
    LET p == CHOOSE q \in Profiles : (q.side = "BUY") <=> (i % 2 = 1)
        req == [symbol |-> p.symbol, side |-> p.side, qty |-> p.qty,
                order_type |-> "MARKET", limit_price |-> None, tif |-> p.tif,
                client_order_id |-> None]
    IN [NewOrder(req, uuid4(i - 1), i) EXCEPT !.status = st]

InitFilter ==
    /\ \E n \in 0..MaxStored : \E st \in [1..n -> Statuses] :
          /\ orders = [i \in 1..n |-> [key |-> uuid4(i - 1), val |-> StoredWithStatus(i, st[i])]]
          /\ uuidCount = n
          /\ clock = n
    /\ call = [op |-> "none", arg |-> None]
    /\ resp = [code |-> 0, body |-> None]
    /\ pc = [t \in Threads |-> "idle"]
    /\ treq = [t \in Threads |-> None]
    /\ titer = [t \in Threads |-> None]
    /\ tres = [t \in Threads |-> None]
    /\ obj = None
    /\ calcCall = None
    /\ calcRes = None

NextFilter ==
    \/ GetOpenOrders
    \/ DoGetOrder

SpecFilter == InitFilter /\ [][NextFilter]_vars

(***************************************************************************)
(* SpecCalc: class StatCalculations.  Python floats are modelled as exact  *)
(* rationals <<numerator, denominator>> in lowest terms with a positive    *)
(* denominator.  obj holds the attributes of the object __init__ ran on;   *)
(* the methods are modelled on that object.                                *)
(***************************************************************************)
Abs(n) == IF n < 0 THEN -n ELSE n

RECURSIVE Gcd(_, _)
Gcd(a, b) == IF b = 0 THEN a ELSE Gcd(b, a % b)

Norm(n, d) ==
    LET g == Gcd(Abs(n), Abs(d))
        sg == IF d < 0 THEN -1 ELSE 1
    IN <<(sg * n) \div g, (sg * d) \div g>>

Rat(n) == <<n, 1>>
RAdd(a, b) == Norm(a[1] * b[2] + b[1] * a[2], a[2] * b[2])
RSub(a, b) == Norm(a[1] * b[2] - b[1] * a[2], a[2] * b[2])
RMul(a, b) == Norm(a[1] * b[1], a[2] * b[2])
\* a / b for b # 0
RDiv(a, b) == Norm(a[1] * b[2], a[2] * b[1])
RNeg(a) == <<-a[1], a[2]>>
RAbs(a) == <<Abs(a[1]), a[2]>>
RLess(a, b) == a[1] * b[2] < b[1] * a[2]
RMax(a, b) == IF RLess(a, b) THEN b ELSE a

\* outcomes of a method call
Return(v) == [kind |-> "return", val |-> Some(v)]
Raise(e) == [kind |-> e, val |-> None]

\* implied_probability_to_american with "<= 0.5" for the "< 0.5" of line 9
ImpliedLeHalf(currentOdds) ==
    IF ~RLess(<<1, 2>>, currentOdds)
    THEN IF currentOdds = Rat(0)
         THEN Raise("ZeroDivisionError")
         ELSE Return(RSub(RDiv(Rat(100), currentOdds), Rat(100)))
    ELSE IF RSub(Rat(1), currentOdds) = Rat(0)
         THEN Raise("ZeroDivisionError")
         ELSE Return(RDiv(RNeg(RMul(Rat(100), currentOdds)), RSub(Rat(1), currentOdds)))

\* lines 8-17; the value returned is also the value stored
ImpliedProbabilityToAmerican(currentOdds) ==
    IF RLess(currentOdds, <<1, 2>>)
    THEN IF currentOdds = Rat(0)
         THEN Raise("ZeroDivisionError")
         ELSE Return(RSub(RDiv(Rat(100), currentOdds), Rat(100)))
    ELSE IF RSub(Rat(1), currentOdds) = Rat(0)
         THEN Raise("ZeroDivisionError")
         ELSE Return(RDiv(RNeg(RMul(Rat(100), currentOdds)), RSub(Rat(1), currentOdds)))

\* american_to_decimal with ">= 0" for the "> 0" of line 20
AmericanToDecimalGe(americanOdds) ==
    IF ~RLess(americanOdds, Rat(0))
    THEN Return(RAdd(Rat(1), RDiv(americanOdds, Rat(100))))
    ELSE IF RAbs(americanOdds) = Rat(0)
         THEN Raise("ZeroDivisionError")
         ELSE Return(RAdd(Rat(1), RDiv(Rat(100), RAbs(americanOdds))))

\* lines 19-23
AmericanToDecimal(americanOdds) ==
    IF RLess(Rat(0), americanOdds)
    THEN Return(RAdd(Rat(1), RDiv(americanOdds, Rat(100))))
    ELSE IF RAbs(americanOdds) = Rat(0)
         THEN Raise("ZeroDivisionError")
         ELSE Return(RAdd(Rat(1), RDiv(Rat(100), RAbs(americanOdds))))

\* american_to_net without the "- 1" of line 26
AmericanToNetNoMinus(american_odds) == AmericanToDecimal(american_odds)

\* lines 25-26
AmericanToNet(american_odds) ==
    LET dec == AmericanToDecimal(american_odds)
    IN IF dec.kind # "return" THEN dec ELSE Return(RSub(dec.val[1], Rat(1)))

\* lines 28-32, the value computed
ExpectedValue(prob, odds, stake) ==
    LET b == AmericanToNet(odds)
    IN IF b.kind # "return" THEN b
       ELSE Return(RSub(RMul(RMul(prob, b.val[1]), stake),
                        RMul(RSub(Rat(1), prob), stake)))

\* kelly_criterion without the max(0.0, ...) of line 41
KellyNoClamp(o) ==
    IF o.currentOdds = None THEN Raise("AttributeError")
    ELSE IF o.americanOdds = None THEN Raise("AttributeError")
    ELSE LET probOfWinning == o.currentOdds[1]
             probOfLoss == RSub(Rat(1), probOfWinning)
             netOdds == AmericanToNet(o.americanOdds[1])
         IN IF netOdds.kind # "return" THEN netOdds
            ELSE IF netOdds.val[1] = Rat(0) THEN Raise("ZeroDivisionError")
            ELSE Return(RDiv(RSub(RMul(netOdds.val[1], probOfWinning), probOfLoss),
                             netOdds.val[1]))

\* lines 35-43, the value computed from the attributes of o
KellyCriterion(o) ==
    IF o.currentOdds = None THEN Raise("AttributeError")
    ELSE IF o.americanOdds = None THEN Raise("AttributeError")
    ELSE LET probOfWinning == o.currentOdds[1]
             probOfLoss == RSub(Rat(1), probOfWinning)
             netOdds == AmericanToNet(o.americanOdds[1])
         IN IF netOdds.kind # "return" THEN netOdds
            ELSE IF netOdds.val[1] = Rat(0) THEN Raise("ZeroDivisionError")
            ELSE Return(RMax(Rat(0),
                             RDiv(RSub(RMul(netOdds.val[1], probOfWinning), probOfLoss),
                                  netOdds.val[1])))

\* StatCalculations(currentOdds): line 3 assigns, line 4 reads an attribute
\* nothing has assigned
Construct(currentOdds) ==
    /\ obj' = Some([currentOdds |-> Some(currentOdds), americanOdds |-> None,
                    expected_value |-> None, optimalBetSize |-> None])
    /\ calcCall' = Some([op |-> "__init__", args |-> <<currentOdds>>])
    /\ calcRes' = Some(Raise("AttributeError"))
    /\ UNCHANGED <<registryVars, threadVars>>

\* implied_probability_to_american also assigning its argument to
\* __currentOdds
CallImpliedSetsProb(currentOdds) ==
    /\ obj # None
    /\ LET r == ImpliedProbabilityToAmerican(currentOdds)
       IN /\ calcRes' = Some(r)
          /\ obj' = IF r.kind = "return"
                    THEN Some([obj[1] EXCEPT !.americanOdds = r.val,
                                             !.currentOdds = Some(currentOdds)])
                    ELSE obj
    /\ calcCall' = Some([op |-> "implied_probability_to_american", args |-> <<currentOdds>>])
    /\ UNCHANGED <<registryVars, threadVars>>

\* implied_probability_to_american called on the object
CallImplied(currentOdds) ==
    /\ obj # None
    /\ LET r == ImpliedProbabilityToAmerican(currentOdds)
       IN /\ calcRes' = Some(r)
          /\ obj' = IF r.kind = "return"
                    THEN Some([obj[1] EXCEPT !.americanOdds = r.val])
                    ELSE obj
    /\ calcCall' = Some([op |-> "implied_probability_to_american", args |-> <<currentOdds>>])
    /\ UNCHANGED <<registryVars, threadVars>>

CallAmericanToDecimal(americanOdds) ==
    /\ obj # None
    /\ calcRes' = Some(AmericanToDecimal(americanOdds))
    /\ calcCall' = Some([op |-> "american_to_decimal", args |-> <<americanOdds>>])
    /\ UNCHANGED <<obj, registryVars, threadVars>>

CallAmericanToNet(american_odds) ==
    /\ obj # None
    /\ calcRes' = Some(AmericanToNet(american_odds))
    /\ calcCall' = Some([op |-> "american_to_net", args |-> <<american_odds>>])
    /\ UNCHANGED <<obj, registryVars, threadVars>>

CallExpectedValue(prob, odds, stake) ==
    /\ obj # None
    /\ LET r == ExpectedValue(prob, odds, stake)
       IN /\ calcRes' = Some(r)
          /\ obj' = IF r.kind = "return"
                    THEN Some([obj[1] EXCEPT !.expected_value = r.val])
                    ELSE obj
    /\ calcCall' = Some([op |-> "expected_value", args |-> <<prob, odds, stake>>])
    /\ UNCHANGED <<registryVars, threadVars>>

CallKelly ==
    /\ obj # None
    /\ LET r == KellyCriterion(obj[1])
       IN /\ calcRes' = Some(r)
          /\ obj' = IF r.kind = "return"
                    THEN Some([obj[1] EXCEPT !.optimalBetSize = r.val])
                    ELSE obj
    /\ calcCall' = Some([op |-> "kelly_criterion", args |-> <<>>])
    /\ UNCHANGED <<registryVars, threadVars>>

\* the probabilities a caller passes: 0.4 and 0.6, and every fraction in
\* [0, 1] whose denominator is at most MaxDenom
Probs == {<<2, 5>>, <<3, 5>>} \cup
         {Norm(q[1], q[2]) : q \in {r \in (0..MaxDenom) \X (1..MaxDenom) : r[1] <= r[2]}}
\* the American odds a caller passes: 0, -150, 150 and the odds the object
\* has stored
OddsArgs == {Rat(0), Rat(150), Rat(-150)} \cup
            (IF obj # None /\ obj[1].americanOdds # None THEN {obj[1].americanOdds[1]} ELSE {})
\* the probabilities passed to expected_value: the object's own and 0.6
EvProbs == {<<3, 5>>} \cup
           (IF obj # None /\ obj[1].currentOdds # None THEN {obj[1].currentOdds[1]} ELSE {})
Stakes == {Rat(1), Rat(2)}

NextCalc ==
    \/ \E p \in Probs : Construct(p)
    \/ \E p \in Probs : CallImplied(p)
    \/ \E a \in OddsArgs : CallAmericanToDecimal(a)
    \/ \E a \in OddsArgs : CallAmericanToNet(a)
    \/ \E p \in EvProbs : \E a \in OddsArgs : \E s \in Stakes : CallExpectedValue(p, a, s)
    \/ CallKelly

SpecCalc == Init /\ [][NextCalc]_vars

(***************************************************************************)
(* Properties of the order registry                                        *)
(***************************************************************************)

\* C1 as stated: when a place_order with a non-null client_order_id K has
\* returned an Order, a later place_order carrying K (here: the very next
\* call) returns that same Order and the registry does not grow.
C1_AnyLaterCallSameKey ==
    [][(/\ call.op = "place_order"
        /\ resp.code = 201
        /\ call.arg.client_order_id # None
        /\ call'.op = "place_order"
        /\ call'.arg.client_order_id = call.arg.client_order_id)
       => /\ resp'.body = resp.body
          /\ Len(orders') = Len(orders)]_vars

\* C1 amended: a place_order with a non-empty client_order_id K that passes
\* validation returns an Order with id K that is stored under K; stored
\* orders are never removed or changed; and every place_order carrying a
\* stored K that passes validation returns the Order stored under K and
\* leaves the registry as it was.
C1_IdempotentRetry ==
    [][/\ \A i \in DOMAIN orders : i \in DOMAIN orders' /\ orders'[i] = orders[i]
       /\ (/\ call'.op = "place_order"
           /\ call'.arg.client_order_id # None
           /\ call'.arg.client_order_id # <<"">>
           /\ ~(call'.arg.order_type = "LIMIT" /\ call'.arg.limit_price = None))
          => /\ resp'.code = 201
             /\ Len(resp'.body) = 1
             /\ resp'.body[1].id = call'.arg.client_order_id[1]
             /\ \E i \in DOMAIN orders' :
                   /\ orders'[i].key = call'.arg.client_order_id[1]
                   /\ orders'[i].val = resp'.body[1]
             /\ \A i \in DOMAIN orders :
                   orders[i].val.id = call'.arg.client_order_id[1]
                   => resp'.body = <<orders[i].val>> /\ orders' = orders]_vars

\* a retry carrying other fields under a stored key got the first order back
C1_Witness ==
    /\ call.op = "place_order"
    /\ resp.code = 201
    /\ call.arg.client_order_id # None
    /\ resp.body[1].id = call.arg.client_order_id[1]
    /\ resp.body[1].side # call.arg.side
    /\ Len(orders) = 2

\* C2 as stated: two place_order requests under the same client key, their
\* steps interleaved in any order, do not create two orders: both callers
\* receive the same Order and the order stored under the key is never
\* replaced.
C2_NoDoubleCreate ==
    /\ [](\A t, u \in Threads :
            (/\ tres[t] # None /\ tres[u] # None
             /\ tres[t][1].code = 201 /\ tres[u][1].code = 201
             /\ treq[t][1].client_order_id # None
             /\ treq[t][1].client_order_id = treq[u][1].client_order_id)
            => tres[t][1].body = tres[u][1].body)
    /\ [][\A i \in DOMAIN orders : orders'[i] = orders[i]]_vars

\* C3: a LIMIT request without limit price is answered 400 in every registry
\* state, also when its key matches a stored order, and changes nothing; a
\* LIMIT request with a positive limit price is not answered 400.
C3_LimitNeedsPrice ==
    /\ [](call.op = "place_order" /\ call.arg.order_type = "LIMIT"
            => IF call.arg.limit_price = None
               THEN resp.code = 400 /\ resp.body = <<>>
               ELSE call.arg.limit_price[1] > 0 => resp.code = 201)
    /\ [][(call'.op = "place_order" /\ call'.arg.order_type = "LIMIT"
             /\ call'.arg.limit_price = None)
            => /\ orders' = orders
               /\ uuidCount' = uuidCount
               /\ clock' = clock]_vars

\* a LIMIT request without price, keyed like a stored order, was rejected
C3_Witness ==
    /\ call.op = "place_order"
    /\ call.arg.order_type = "LIMIT"
    /\ call.arg.limit_price = None
    /\ call.arg.client_order_id # None
    /\ \E i \in DOMAIN orders : orders[i].key = call.arg.client_order_id[1]
    /\ resp.code = 400

\* C4 as stated: every stored order has a limit price iff it is a LIMIT order.
C4_LimitPriceIffLimit ==
    \A i \in DOMAIN orders :
        (orders[i].val.limit_price # None) <=> (orders[i].val.order_type = "LIMIT")

\* C5: every key maps to the order carrying that id, ids are pairwise
\* distinct, and no step replaces or modifies a stored order.
C5_KeysAreIds ==
    /\ [](\A i \in DOMAIN orders :
             /\ orders[i].key = orders[i].val.id
             /\ \A j \in DOMAIN orders :
                   (orders[j].key = orders[i].key \/ orders[j].val.id = orders[i].val.id)
                   => j = i)
    /\ [][/\ Len(orders') >= Len(orders)
          /\ \A i \in DOMAIN orders : orders'[i] = orders[i]]_vars

\* a second request under the key of the first stored order, with another
\* order type, left two orders in the registry
C5_Witness ==
    /\ Len(orders) = 2
    /\ call.op = "place_order"
    /\ call.arg.client_order_id = <<orders[1].key>>
    /\ call.arg.order_type # orders[1].val.order_type
    /\ resp.code = 201

\* C6: a valid request that hits no stored key appends exactly one order
\* under its own id (the client's key, or an identifier no stored order
\* has), NEW, nothing filled, symbol upper-cased, the other fields copied,
\* and leaves the stored orders as they were.
C6_NewOrderStored ==
    [][(/\ call'.op = "place_order"
        /\ call'.arg.qty > 0
        /\ (call'.arg.limit_price # None => call'.arg.limit_price[1] > 0)
        /\ ~(call'.arg.order_type = "LIMIT" /\ call'.arg.limit_price = None)
        /\ ~(/\ call'.arg.client_order_id # None
             /\ call'.arg.client_order_id # <<"">>
             /\ \E i \in DOMAIN orders : orders[i].val.id = call'.arg.client_order_id[1]))
       => LET req == call'.arg
              n == Len(orders) + 1
          IN /\ Len(orders') = n
             /\ \A i \in DOMAIN orders : orders'[i] = orders[i]
             /\ resp' = [code |-> 201, body |-> <<orders'[n].val>>]
             /\ orders'[n].key = orders'[n].val.id
             /\ \A i \in DOMAIN orders : orders[i].key # orders'[n].key
             /\ (req.client_order_id # None /\ req.client_order_id # <<"">>
                   => orders'[n].key = req.client_order_id[1])
             /\ orders'[n].val.status = "NEW"
             /\ orders'[n].val.filled_qty = 0
             /\ orders'[n].val.avg_fill_price = None
             /\ orders'[n].val.symbol \in {<<65, 65, 80, 76>>, <<84, 83, 76, 65>>}
             /\ (orders'[n].val.symbol = <<65, 65, 80, 76>>) <=> (req.symbol = <<97, 97, 112, 108>>)
             /\ orders'[n].val.side = req.side
             /\ orders'[n].val.qty = req.qty
             /\ orders'[n].val.order_type = req.order_type
             /\ orders'[n].val.limit_price = req.limit_price
             /\ orders'[n].val.tif = req.tif]_vars

\* a keyless lower-case request was stored second, under a generated id
C6_Witness ==
    /\ call.op = "place_order"
    /\ call.arg.client_order_id = None
    /\ call.arg.symbol = <<97, 97, 112, 108>>
    /\ resp.code = 201
    /\ Len(orders) = 2
    /\ resp.body = <<orders[2].val>>
    /\ orders[2].val.symbol = <<65, 65, 80, 76>>

\* C7: get_open_orders returns exactly the stored orders whose status is NEW
\* or PARTIALLY_FILLED.
C7_OpenOrdersExact ==
    call.op = "get_open_orders" =>
        /\ resp.code = 200
        /\ \A i \in DOMAIN orders :
              (orders[i].val.status = "NEW" \/ orders[i].val.status = "PARTIALLY_FILLED")
              <=> (\E j \in DOMAIN resp.body : resp.body[j] = orders[i].val)
        /\ \A j \in DOMAIN resp.body :
              /\ \E i \in DOMAIN orders : orders[i].val = resp.body[j]
              /\ resp.body[j].status \notin {"FILLED", "CANCELED", "REJECTED"}

\* the registry held a PARTIALLY_FILLED, a FILLED and a NEW order when
\* get_open_orders answered with two of them
C7_Witness ==
    /\ call.op = "get_open_orders"
    /\ Len(resp.body) = 2
    /\ \E i, j, k \in DOMAIN orders :
          /\ orders[i].val.status = "PARTIALLY_FILLED"
          /\ orders[j].val.status = "FILLED"
          /\ orders[k].val.status = "NEW"

\* C8: get_order answers 404 exactly when no order is stored under the id
\* and otherwise returns the order stored under it; the Order a place_order
\* returns is stored under its id and no step removes or changes a stored
\* order, so get_order of its id returns it in every later state.
C8_GetOrder ==
    /\ [](call.op = "get_order" =>
            /\ (resp.code = 404) <=> ~(\E i \in DOMAIN orders : orders[i].key = call.arg)
            /\ resp.code = 404 => resp.body = <<>>
            /\ resp.code # 404 =>
                  /\ resp.code = 200
                  /\ \E i \in DOMAIN orders :
                        orders[i].key = call.arg /\ resp.body = <<orders[i].val>>)
    /\ [](call.op = "place_order" /\ resp.code = 201 =>
            \E i \in DOMAIN orders :
                orders[i].key = resp.body[1].id /\ orders[i].val = resp.body[1])
    /\ [][\A i \in DOMAIN orders : i \in DOMAIN orders' /\ orders'[i] = orders[i]]_vars

\* get_order found the second stored order
C8_Witness ==
    /\ call.op = "get_order"
    /\ resp.code = 200
    /\ Len(orders) = 2
    /\ call.arg = orders[2].key
    /\ resp.body = <<orders[2].val>>

\* get_order of an id nobody stored, with orders in the registry
C8_WitnessNotFound ==
    /\ call.op = "get_order"
    /\ resp.code = 404
    /\ Len(orders) = 2

(***************************************************************************)
(* Properties of the odds calculator.  The failure classes of the design   *)
(* are named as the interpreter raises them: a division by zero is         *)
(* ZeroDivisionError (DomainError), a read of an attribute nothing has     *)
(* assigned is AttributeError.                                             *)
(***************************************************************************)

\* C9 as stated: on an instance constructed with a probability,
\* kelly_criterion before any implied_probability_to_american fails with
\* UninitializedState, and after a successful conversion it no longer does.
C9_KellyBeforeConversion ==
    (calcCall # None /\ calcCall[1].op = "kelly_criterion") =>
        IF obj[1].americanOdds = None
        THEN calcRes[1].kind = "UninitializedState"
        ELSE calcRes[1].kind # "UninitializedState"

\* C10: implied_probability_to_american fails with a division by zero for
\* probability 0 and for probability 1, american_to_decimal, american_to_net
\* and expected_value fail with it for American odds 0, and a failing call
\* leaves the stored American odds (and every other attribute) unchanged.
C10_DegenerateInputs ==
    /\ [](calcCall # None =>
            /\ (calcCall[1].op = "implied_probability_to_american"
                  /\ calcCall[1].args[1] \in {<<0, 1>>, <<1, 1>>})
               => calcRes[1] = [kind |-> "ZeroDivisionError", val |-> <<>>]
            /\ (calcCall[1].op \in {"american_to_decimal", "american_to_net"}
                  /\ calcCall[1].args[1] = <<0, 1>>)
               => calcRes[1] = [kind |-> "ZeroDivisionError", val |-> <<>>]
            /\ (calcCall[1].op = "expected_value" /\ calcCall[1].args[2] = <<0, 1>>)
               => calcRes[1] = [kind |-> "ZeroDivisionError", val |-> <<>>])
    /\ [][(calcCall' # None /\ calcRes'[1].kind = "ZeroDivisionError")
            => /\ obj' = obj
               /\ obj'[1].americanOdds = obj[1].americanOdds]_vars

\* implied_probability_to_american(1) failed on an object that has stored
\* the odds of 0.4, and they are still stored
C10_Witness ==
    /\ calcCall # None
    /\ calcCall[1].op = "implied_probability_to_american"
    /\ calcCall[1].args = <<(<<1, 1>>)>>
    /\ calcRes[1].kind = "ZeroDivisionError"
    /\ obj[1].americanOdds = <<(<<150, 1>>)>>

\* expected_value with American odds 0 failed after a conversion
C10_WitnessZeroOdds ==
    /\ calcCall # None
    /\ calcCall[1].op = "expected_value"
    /\ calcCall[1].args[2] = <<0, 1>>
    /\ calcRes[1].kind = "ZeroDivisionError"
    /\ obj[1].americanOdds # <<>>

\* C11: for 0 < p < 1 implied_probability_to_american(p) returns 100/p - 100
\* when p < 0.5 and -(100 p)/(1 - p) when p >= 0.5 (0.4 gives 150, 0.6
\* gives -150, 0.5 gives -100), and the value returned is the American odds
\* the object holds afterwards, which kelly_criterion then finds assigned.
C11_ImpliedValue ==
    /\ [](calcCall # None /\ calcCall[1].op = "implied_probability_to_american" =>
            LET p == calcCall[1].args[1]
                v == calcRes[1].val
            IN (0 < p[1] /\ p[1] < p[2]) =>
                  /\ calcRes[1].kind = "return"
                  /\ v[1][2] > 0
                  /\ IF 2 * p[1] < p[2]
                     THEN v[1][1] * p[1] = (100 * p[2] - 100 * p[1]) * v[1][2]
                     ELSE v[1][1] * (p[2] - p[1]) = (-100 * p[1]) * v[1][2]
                  /\ (p = <<2, 5>> => v = <<(<<150, 1>>)>>)
                  /\ (p = <<3, 5>> => v = <<(<<-150, 1>>)>>)
                  /\ (p = <<1, 2>> => v = <<(<<-100, 1>>)>>)
                  /\ obj[1].americanOdds = v)
    /\ [](calcCall # None /\ calcCall[1].op = "kelly_criterion"
            /\ obj[1].americanOdds # <<>>
          => calcRes[1].kind # "AttributeError")

\* the conversion of 0.5 took the negative branch and stored -100
C11_Witness ==
    /\ calcCall # None
    /\ calcCall[1].op = "implied_probability_to_american"
    /\ calcCall[1].args = <<(<<1, 2>>)>>
    /\ calcRes[1].kind = "return"
    /\ obj[1].americanOdds = <<(<<-100, 1>>)>>

\* C12: with win probability p and stored American odds a, kelly_criterion
\* returns max(0, (b p - (1 - p)) / b) for b = american_to_net(a), that is
\* b = a/100 for a > 0 and b = 100/|a| otherwise; the value is never
\* negative.
C12_KellyValue ==
    (calcCall # None /\ calcCall[1].op = "kelly_criterion"
       /\ obj[1].americanOdds # <<>>) =>
        LET p == obj[1].currentOdds[1]
            a == obj[1].americanOdds[1]
            v == calcRes[1].val
            \* (b p - (1 - p)) / b = num / den with den > 0
            num == IF a[1] > 0
                   THEN p[1] * a[1] - 100 * a[2] * (p[2] - p[1])
                   ELSE 100 * a[2] * p[1] + a[1] * (p[2] - p[1])
            den == IF a[1] > 0 THEN p[2] * a[1] ELSE 100 * a[2] * p[2]
        IN /\ calcRes[1].kind = "return"
           /\ v[1][2] > 0
           /\ v[1][1] >= 0
           /\ den > 0
           /\ IF num <= 0 THEN v[1][1] = 0 ELSE v[1][1] * den = num * v[1][2]
           /\ obj[1].optimalBetSize = v

\* kelly_criterion clamped a negative stake to 0: p = 1/3 against the odds
\* of 0.6
C12_Witness ==
    /\ calcCall # None
    /\ calcCall[1].op = "kelly_criterion"
    /\ obj[1].currentOdds = <<(<<1, 3>>)>>
    /\ obj[1].americanOdds = <<(<<-150, 1>>)>>
    /\ calcRes[1] = [kind |-> "return", val |-> <<(<<0, 1>>)>>]

\* kelly_criterion returned a positive stake: p = 0.6 against the odds of 0.4
C12_WitnessPositive ==
    /\ calcCall # None
    /\ calcCall[1].op = "kelly_criterion"
    /\ obj[1].currentOdds = <<(<<3, 5>>)>>
    /\ obj[1].americanOdds = <<(<<150, 1>>)>>
    /\ calcRes[1] = [kind |-> "return", val |-> <<(<<1, 3>>)>>]

\* C13: on the American odds that the conversion of a probability p with
\* 0 < p < 1 gives, american_to_decimal returns 1 + (1 - p)/p and
\* american_to_net returns (1 - p)/p, which is positive; kelly_criterion on
\* stored odds never fails with a division by zero.
C13_NetOddsOfConversion ==
    /\ calcCall # None /\ calcCall[1].op \in {"american_to_decimal", "american_to_net"} =>
          \A p \in Probs :
              LET a == calcCall[1].args[1]
                  v == calcRes[1].val
                  one == IF calcCall[1].op = "american_to_decimal" THEN 1 ELSE 0
              IN (/\ 0 < p[1] /\ p[1] < p[2]
                  /\ IF 2 * p[1] < p[2]
                     THEN a[1] * p[1] = (100 * p[2] - 100 * p[1]) * a[2]
                     ELSE a[1] * (p[2] - p[1]) = (-100 * p[1]) * a[2])
                 => /\ calcRes[1].kind = "return"
                    /\ v[1][2] > 0
                    /\ (v[1][1] - one * v[1][2]) * p[1] = (p[2] - p[1]) * v[1][2]
                    /\ v[1][1] - one * v[1][2] > 0
    /\ calcCall # None /\ calcCall[1].op = "kelly_criterion" =>
          calcRes[1].kind # "ZeroDivisionError"

\* american_to_net of the stored odds of 0.6 returned 2/3
C13_Witness ==
    /\ calcCall # None
    /\ calcCall[1].op = "american_to_net"
    /\ obj[1].americanOdds = <<(<<-150, 1>>)>>
    /\ calcCall[1].args = obj[1].americanOdds
    /\ calcRes[1] = [kind |-> "return", val |-> <<(<<2, 3>>)>>]

\* C14 as stated: for 0 < p < 1 the sequence construct(p),
\* a = implied_probability_to_american(p), expected_value(p, a, stake),
\* kelly_criterion() completes without error, expected_value returns 0 for
\* every stake and kelly_criterion returns 0.
C14_FairOddsSequence ==
    calcCall # None =>
        LET p == obj[1].currentOdds[1]
            a == obj[1].americanOdds
            fair == /\ 0 < p[1] /\ p[1] < p[2]
                    /\ a # <<>>
                    /\ IF 2 * p[1] < p[2]
                       THEN a[1][1] * p[1] = (100 * p[2] - 100 * p[1]) * a[1][2]
                       ELSE a[1][1] * (p[2] - p[1]) = (-100 * p[1]) * a[1][2]
        IN /\ (calcCall[1].op = "__init__" /\ 0 < p[1] /\ p[1] < p[2])
              => calcRes[1].kind = "return"
           /\ (calcCall[1].op = "expected_value" /\ fair
                 /\ calcCall[1].args[1] = p /\ <<calcCall[1].args[2]>> = a)
              => calcRes[1] = [kind |-> "return", val |-> <<(<<0, 1>>)>>]
           /\ (calcCall[1].op = "kelly_criterion" /\ fair)
              => calcRes[1] = [kind |-> "return", val |-> <<(<<0, 1>>)>>]

\* C15: every stored order has filled quantity <= quantity; no step moves
\* an order out of FILLED, CANCELED or REJECTED or back to NEW; with the
\* operations present every stored order is NEW with filled quantity 0.
C15_StatusNeverMovesBack ==
    /\ [](\A i \in DOMAIN orders :
             /\ orders[i].val.filled_qty <= orders[i].val.qty
             /\ orders[i].val.status = "NEW"
             /\ orders[i].val.filled_qty = 0)
    /\ [][\A i \in DOMAIN orders :
             /\ i \in DOMAIN orders'
             /\ orders[i].val.status \in {"FILLED", "CANCELED", "REJECTED"}
                => orders'[i].val.status = orders[i].val.status
             /\ orders'[i].val.status = "NEW" => orders[i].val.status = "NEW"
             /\ orders'[i].val.filled_qty >= orders[i].val.filled_qty]_vars

\* two orders are stored and a further place_order under the first key has
\* been answered
C15_Witness ==
    /\ Len(orders) = 2
    /\ call.op = "place_order"
    /\ resp.code = 201
    /\ resp.body = <<orders[1].val>>
    /\ orders[1].val.status = "NEW"
    /\ orders[2].val.filled_qty = 0

\* C16: get_open_orders and get_order, found or not, leave the registry as
\* it was; what get_open_orders returns is the stored open orders in the
\* registry's own order, so a repeated call with no place_order in between
\* returns the same orders in the same order.
C16_QueriesChangeNothing ==
    /\ [][call'.op \in {"get_open_orders", "get_order"}
            => /\ orders' = orders
               /\ uuidCount' = uuidCount
               /\ clock' = clock]_vars
    /\ [](call.op = "get_open_orders" =>
            /\ Len(resp.body) = Len(orders)
            /\ \A i \in DOMAIN orders : resp.body[i] = orders[i].val)
    /\ [][(call.op = "get_open_orders" /\ call'.op = "get_order")
            => \A i \in DOMAIN resp.body : orders'[i].val = resp.body[i]]_vars

\* get_order answered 404 with two orders stored
C16_Witness ==
    /\ call.op = "get_order"
    /\ resp.code = 404
    /\ Len(orders) = 2
    /\ orders[1].val.created_at < orders[2].val.created_at

\* get_open_orders returned the two stored orders, first stored first
C16_WitnessOpen ==
    /\ call.op = "get_open_orders"
    /\ Len(resp.body) = 2
    /\ resp.body[1] = orders[1].val
    /\ resp.body[1].created_at < resp.body[2].created_at

\* C17: a place_order whose client_order_id is the empty string is handled
\* as a request without key: it matches no stored order, the order it
\* creates is stored under a generated identifier, never under the empty
\* string, and two such requests create two distinct orders.
C17_EmptyKeyIsNoKey ==
    /\ [](\A i \in DOMAIN orders : orders[i].key # "" /\ orders[i].val.id # "")
    /\ [][(/\ call'.op = "place_order"
           /\ call'.arg.client_order_id = <<"">>
           /\ ~(call'.arg.order_type = "LIMIT" /\ call'.arg.limit_price = None))
          => LET n == Len(orders) + 1
             IN /\ Len(orders') = n
                /\ \A i \in DOMAIN orders : orders'[i] = orders[i]
                /\ resp' = [code |-> 201, body |-> <<orders'[n].val>>]
                /\ orders'[n].key = orders'[n].val.id
                /\ orders'[n].key \in {UuidName[k] : k \in DOMAIN UuidName}
                /\ \A i \in DOMAIN orders : orders[i].key # orders'[n].key
                /\ (call.op = "place_order" /\ resp.code = 201
                      /\ call.arg.client_order_id = <<"">>)
                   => resp'.body[1].id # resp.body[1].id]_vars

\* a request with the empty key was stored second, under a generated id of
\* its own, next to an order with the same fields
C17_Witness ==
    /\ call.op = "place_order"
    /\ call.arg.client_order_id = <<"">>
    /\ resp.code = 201
    /\ Len(orders) = 2
    /\ resp.body = <<orders[2].val>>
    /\ orders[1].key # orders[2].key
    /\ orders[1].val.symbol = orders[2].val.symbol
    /\ orders[1].val.order_type = orders[2].val.order_type
    /\ orders[1].val.limit_price = orders[2].val.limit_price
    /\ orders[1].key \in {UuidName[k] : k \in DOMAIN UuidName}

\* C18: american_to_decimal, american_to_net and expected_value change
\* neither the stored win probability nor the stored American odds;
\* implied_probability_to_american never changes the stored win probability
\* and a successful call stores what it returns; so kelly_criterion returns
\* max(0, p - (1 - p)/b) for the p given at construction and the net odds b
\* of the odds the latest conversion stored, whatever probability that
\* conversion was called with.
C18_KellyReadsOnlyStoredState ==
    /\ [][(calcCall' # None /\ calcCall'[1].op = "__init__")
            => /\ obj'[1].currentOdds = calcCall'[1].args
               /\ obj'[1].americanOdds = <<>>]_vars
    /\ [][(calcCall' # None /\ calcCall'[1].op # "__init__")
            => obj'[1].currentOdds = obj[1].currentOdds]_vars
    /\ [][(calcCall' # None
             /\ calcCall'[1].op \in {"american_to_decimal", "american_to_net",
                                     "expected_value", "kelly_criterion"})
            => obj'[1].americanOdds = obj[1].americanOdds]_vars
    /\ [][(calcCall' # None /\ calcCall'[1].op = "implied_probability_to_american")
            => obj'[1].americanOdds =
                  IF calcRes'[1].kind = "return" THEN calcRes'[1].val
                  ELSE obj[1].americanOdds]_vars
    /\ [][(calcCall' # None /\ calcCall'[1].op = "kelly_criterion"
             /\ obj[1].americanOdds # <<>>)
            => LET p == obj[1].currentOdds[1]
                   a == obj[1].americanOdds[1]
                   \* (1 - p)/b = lossN / lossD
                   lossN == IF a[1] > 0 THEN 100 * a[2] * (p[2] - p[1])
                            ELSE (-a[1]) * (p[2] - p[1])
                   lossD == IF a[1] > 0 THEN a[1] * p[2] ELSE 100 * a[2] * p[2]
                   v == calcRes'[1].val[1]
               IN /\ calcRes'[1].kind = "return"
                  /\ IF p[1] * lossD <= lossN * p[2]
                     THEN v = <<0, 1>>
                     ELSE v[1] * p[2] * lossD = (p[1] * lossD - lossN * p[2]) * v[2]]_vars

\* kelly_criterion on an object constructed with 0.6 whose latest conversion
\* was called with 0.4: p = 3/5 against the odds 150 gives 1/3
C18_Witness ==
    /\ calcCall # None
    /\ calcCall[1].op = "kelly_criterion"
    /\ obj[1].currentOdds = <<(<<3, 5>>)>>
    /\ obj[1].americanOdds = <<(<<150, 1>>)>>
    /\ obj[1].expected_value # <<>>
    /\ calcRes[1].val = <<(<<1, 3>>)>>

====
